---- MODULE Spec2Model ----
(***************************************************************************)
(* Model of the dollar-cost-averaging backtest of Notebook.ipynb:          *)
(* load_data -> resample_data -> get_portfolio, as chained by              *)
(* simulate_portfolio, and get_portfolio called on a prepared price table. *)
(*                                                                         *)
(* Numbers are exact rationals [n, d] in lowest terms (d > 0); the value   *)
(* with d = 0 stands for pandas' NaN (a missing price) and propagates      *)
(* through the arithmetic.  Binary floating-point rounding is not          *)
(* modelled.  Dates are day ordinals of a non-leap year (1 = January 1st). *)
(***************************************************************************)
EXTENDS Integers, Sequences, FiniteSets

\* ------------------------------------------------------------------ bounds

\* Number of calendar days the price provider's answer may span.
MaxDays == 3

\* --------------------------------------------------------------- numbers

Abs(x) == IF x < 0 THEN -x ELSE x

RECURSIVE GCD(_, _)
GCD(a, b) == IF b = 0 THEN a ELSE GCD(b, a % b)

\* The rational n/d (d > 0) in lowest terms.
Rat(n, d) == LET g == GCD(Abs(n), d) IN [n |-> n \div g, d |-> d \div g]

Num(k) == [n |-> k, d |-> 1]

NaN == [n |-> 0, d |-> 0]

IsNaN(x) == x.d = 0

RAdd(a, b) == IF IsNaN(a) \/ IsNaN(b) THEN NaN
              ELSE Rat(a.n * b.d + b.n * a.d, a.d * b.d)

RMul(a, b) == IF IsNaN(a) \/ IsNaN(b) THEN NaN
              ELSE Rat(a.n * b.n, a.d * b.d)

\* a / b; the model's prices are never 0, so the non-finite quotient of a
\* division by zero is folded into NaN.
RDiv(a, b) == IF IsNaN(a) \/ IsNaN(b) \/ b.n = 0 THEN NaN
              ELSE IF b.n < 0 THEN Rat(-(a.n * b.d), a.d * (-b.n))
              ELSE Rat(a.n * b.d, a.d * b.n)

RLeq(a, b) == a.n * b.d <= b.n * a.d

Min(S) == CHOOSE x \in S : \A y \in S : x <= y

Max(S) == CHOOSE x \in S : \A y \in S : x >= y

\* ----------------------------------------------------------------- dates

MonthLengths == <<31, 28, 31, 30, 31, 30, 31, 31, 30, 31, 30, 31>>

RECURSIVE DaysBeforeMonth(_)
DaysBeforeMonth(m) == IF m = 1 THEN 0 ELSE DaysBeforeMonth(m - 1) + MonthLengths[m - 1]

YearLength == DaysBeforeMonth(12) + MonthLengths[12]

DayOfYear(date) == ((date - 1) % YearLength) + 1

MonthOf(date) == CHOOSE m \in 1..12 :
                    /\ DaysBeforeMonth(m) < DayOfYear(date)
                    /\ DayOfYear(date) <= DaysBeforeMonth(m) + MonthLengths[m]

\* Timestamp.day: the day-of-month field of a date.
DayOfMonth(date) == DayOfYear(date) - DaysBeforeMonth(MonthOf(date))

\* ---------------------------------------------------------------- inputs

\* tickers: the portfolio as the dict of the notebook, in insertion order.
TickerSpecs ==
    { <<[ticker |-> "A", weight |-> Num(1)]>>,
      <<[ticker |-> "A", weight |-> Rat(4, 5)], [ticker |-> "B", weight |-> Rat(1, 5)]>>,
      <<[ticker |-> "A", weight |-> Rat(4, 5)], [ticker |-> "B", weight |-> Rat(3, 20)]>>,
      <<[ticker |-> "A", weight |-> Rat(4, 5)], [ticker |-> "B", weight |-> Rat(1, 4)]>>,
      <<[ticker |-> "A", weight |-> Rat(3, 2)], [ticker |-> "B", weight |-> Rat(-1, 2)]>> }

\* Requested start dates: February 1st and February 2nd.
StartDates == {32, 33}

InitialAmounts == {Num(100)}

MonthlyAdditions == {Num(0), Num(20)}

\* Opening prices as the provider reports them, before rounding.
RawPrices == {Rat(1004, 1000), Rat(1995, 1000)}

\* The days the provider may report for a request starting at start: from
\* the day before it (history that reaches further back) to end.
ProviderDays(start, end) == (start - 1)..end

\* What yf.Ticker(ticker).history(start, end)[["Open"]] may answer: some
\* non-empty set of trading days, each with an opening price.
ProviderFrames(start, end) ==
    UNION { [S -> RawPrices] : S \in (SUBSET ProviderDays(start, end)) \ {{}} }

\* ----------------------------------------------------------------- state

VARIABLES
    provider,         \* the price provider's answer for each ticker
    pc,               \* position in simulate_portfolio / get_portfolio
    tickers,          \* argument: sequence of [ticker, weight]
    start_date,       \* argument
    end_date,         \* argument
    initial_amount,   \* argument
    monthly_addition, \* argument
    data,             \* load_data: per-ticker frames fetched so far
    df_prices,        \* price table: date -> ticker -> price (NaN if missing)
    record,           \* get_portfolio: the working record
    records,          \* get_portfolio: the ledger
    it,               \* get_portfolio: days of df_prices.index already visited
    error             \* the exception that ended the run, if any

vars == <<provider, pc, tickers, start_date, end_date, initial_amount, monthly_addition,
          data, df_prices, record, records, it, error>>

args == <<provider, tickers, start_date, end_date, initial_amount, monthly_addition>>

NoTable == [d \in {} |-> NaN]

NoRecord == [date |-> 0]

NoError == [kind |-> "none"]

TickerNames(tk) == { tk[i].ticker : i \in 1..Len(tk) }

WeightOf(tk, t) == tk[CHOOSE i \in 1..Len(tk) : tk[i].ticker = t].weight

\* ------------------------------------------------------------- load_data

\* DataFrame.round(2) on one cell: nearest hundredth, ties to even.
Round2(x) ==
    IF IsNaN(x) THEN NaN
    ELSE LET s == x.n * 100
             q == s \div x.d
             r == s % x.d
         IN  IF 2 * r < x.d THEN Rat(q, 100)
             ELSE IF 2 * r > x.d THEN Rat(q + 1, 100)
             ELSE IF q % 2 = 0 THEN Rat(q, 100) ELSE Rat(q + 1, 100)

\* pd.concat(data, axis=1): outer join of the per-ticker frames on the date.
Concat(frames) ==
    LET index == UNION { DOMAIN frames[i].open : i \in 1..Len(frames) }
    IN  [ d \in index |->
            [ t \in { frames[i].ticker : i \in 1..Len(frames) } |->
                LET f == frames[CHOOSE i \in 1..Len(frames) : frames[i].ticker = t].open
                IN  IF d \in DOMAIN f THEN f[d] ELSE NaN ] ]

RoundTable(df) == [ d \in DOMAIN df |-> [ t \in DOMAIN df[d] |-> Round2(df[d][t]) ] ]

\* Variant of DataStartsLate: the comparison also rejects history that
\* begins exactly on the requested start date.
DataStartsLateOrOnTime(start, first_date) == start <= first_date

\* pd.to_datetime(start_date) < first_date
DataStartsLate(start, first_date) == start < first_date

\* One iteration of load_data's loop: fetch the next ticker's history and
\* check that it reaches back to start_date.
LoadTicker ==
    /\ pc = "load_data"
    /\ Len(data) < Len(tickers)
    /\ LET ticker == tickers[Len(data) + 1].ticker
           frame == provider[ticker]
           first_date == Min(DOMAIN frame)
       IN     IF DataStartsLate(start_date, first_date)
              THEN /\ error' = [kind |-> "DataAvailability", ticker |-> ticker,
                                first_date |-> first_date]
                   /\ pc' = "error"
                   /\ data' = <<>>
              ELSE /\ data' = Append(data, [ticker |-> ticker, open |-> frame])
                   /\ UNCHANGED <<pc, error>>
    /\ UNCHANGED <<args, df_prices, record, records, it>>

\* After the loop: concatenate, round to two decimals, return to
\* simulate_portfolio, which hands the table to resample_data.
LoadReturn ==
    /\ pc = "load_data"
    /\ Len(data) = Len(tickers)
    /\ df_prices' = RoundTable(Concat(data))
    /\ data' = <<>>
    /\ pc' = "resample_data"
    /\ UNCHANGED <<args, record, records, it, error>>

\* --------------------------------------------------------- resample_data

\* Variant of ResampleLast: each daily bin is labelled with its right edge,
\* so every row moves to the following day.
ResampleLastRightLabel(df) ==
    [ d \in (Min(DOMAIN df) + 1)..(Max(DOMAIN df) + 1) |->
        [ t \in DOMAIN df[Min(DOMAIN df)] |->
            IF (d - 1) \in DOMAIN df THEN df[d - 1][t] ELSE NaN ] ]

\* resample("1D").last(): one row per calendar day from the first to the
\* last date of the table; a day without a row has no price.
ResampleLast(df) ==
    [ d \in Min(DOMAIN df)..Max(DOMAIN df) |->
        [ t \in DOMAIN df[Min(DOMAIN df)] |->
            IF d \in DOMAIN df THEN df[d][t] ELSE NaN ] ]

\* The value fillna(method="ffill") leaves in cell (d, t).
RECURSIVE FillCell(_, _, _)
FillCell(df, d, t) ==
    IF ~IsNaN(df[d][t]) THEN df[d][t]
    ELSE IF (d - 1) \in DOMAIN df THEN FillCell(df, d - 1, t)
    ELSE NaN

\* Variant of FillForward: fillna is left out, the gaps stay empty.
FillForwardOmitted(df) == df

FillForward(df) == [ d \in DOMAIN df |-> [ t \in DOMAIN df[d] |-> FillCell(df, d, t) ] ]

resample_data(df) == FillForward(ResampleLast(df))

\* simulate_portfolio: df_prices = resample_data(df_prices)
Resample ==
    /\ pc = "resample_data"
    /\ df_prices' = resample_data(df_prices)
    /\ pc' = "get_portfolio"
    /\ UNCHANGED <<args, data, record, records, it, error>>

\* --------------------------------------------------------- get_portfolio

\* Variant of get_number_of_shares: the weight is left out.
get_number_of_shares_unweighted(amount, price, weight) == RDiv(amount, price)

\* Variant of get_number_of_shares: the amount is multiplied by the price.
get_number_of_shares_times(amount, price, weight) == RMul(RMul(amount, price), weight)

get_number_of_shares(amount, price, weight) == RMul(RDiv(amount, price), weight)

\* sum(d["weight"] for d in tickers.values())
RECURSIVE SumWeights(_, _)
SumWeights(tk, k) == IF k = 0 THEN Num(0) ELSE RAdd(SumWeights(tk, k - 1), tk[k].weight)

\* Variant of WeightsInvalid: only a total above 1 is rejected.
WeightsInvalidAbove(tk) == ~RLeq(SumWeights(tk, Len(tk)), Num(1))

WeightsInvalid(tk) == SumWeights(tk, Len(tk)) # Num(1)

\* df_prices.index as a sequence, in ascending order.
RECURSIVE IndexOf(_)
IndexOf(S) == IF S = {} THEN <<>> ELSE <<Min(S)>> \o IndexOf(S \ {Min(S)})

\* The record built before the loop.
FirstRecord(tk, df, initial) ==
    LET first == IndexOf(DOMAIN df)[1]
    IN  [ date |-> first,
          price |-> [ t \in TickerNames(tk) |-> df[first][t] ],
          shares |-> [ t \in TickerNames(tk) |->
                         get_number_of_shares(initial, df[first][t], WeightOf(tk, t)) ],
          amount_invested |-> initial,
          portfolio_value |-> initial ]

\* Variant of IsContributionDay: the contribution falls on the last day
\* of the month.
IsContributionDayMonthEnd(day) == DayOfMonth(day + 1) = 1

\* if day.day == 1
IsContributionDay(day) == DayOfMonth(day) = 1

\* Variant of Contribute: the purchase overwrites the holdings.
ContributeOverwrite(tk, rec, monthly) ==
    [ rec EXCEPT
        !.shares = [ t \in TickerNames(tk) |->
                       get_number_of_shares(monthly, rec.price[t], WeightOf(tk, t)) ],
        !.amount_invested = RAdd(rec.amount_invested, monthly) ]

\* Variant of Contribute: the invested amount is not increased.
ContributeUnrecorded(tk, rec, monthly) ==
    [ rec EXCEPT
        !.shares = [ t \in TickerNames(tk) |->
                       RAdd(rec.shares[t],
                            get_number_of_shares(monthly, rec.price[t], WeightOf(tk, t))) ] ]

\* Buy more shares with the monthly addition.
Contribute(tk, rec, monthly) ==
    [ rec EXCEPT
        !.shares = [ t \in TickerNames(tk) |->
                       RAdd(rec.shares[t],
                            get_number_of_shares(monthly, rec.price[t], WeightOf(tk, t))) ],
        !.amount_invested = RAdd(rec.amount_invested, monthly) ]

\* Variant of PortfolioValue: the reset to 0 is left out, the day's value
\* is added to the previous one.
RECURSIVE PortfolioValueNoReset(_, _, _)
PortfolioValueNoReset(tk, rec, k) ==
    IF k = 0 THEN rec.portfolio_value
    ELSE RAdd(PortfolioValueNoReset(tk, rec, k - 1),
              RMul(rec.shares[tk[k].ticker], rec.price[tk[k].ticker]))

\* portfolio_value = 0, then += shares * price for each ticker in turn.
RECURSIVE PortfolioValue(_, _, _)
PortfolioValue(tk, rec, k) ==
    IF k = 0 THEN Num(0)
    ELSE RAdd(PortfolioValue(tk, rec, k - 1),
              RMul(rec.shares[tk[k].ticker], rec.price[tk[k].ticker]))

\* Variant of DayRecord: the first day of the table, funded by the initial
\* amount, gets no monthly addition.
DayRecordNoDayZero(tk, df, rec, day, monthly) ==
    LET dated == [ rec EXCEPT !.date = day,
                              !.price = [ t \in TickerNames(tk) |-> df[day][t] ] ]
        bought == IF IsContributionDay(day) /\ day # Min(DOMAIN df)
                  THEN Contribute(tk, dated, monthly) ELSE dated
    IN  [ bought EXCEPT !.portfolio_value = PortfolioValue(tk, bought, Len(tk)) ]

\* Variant of DayRecord: the shares are bought before the prices are
\* updated, at the previous day's prices.
DayRecordBuyAtOldPrice(tk, df, rec, day, monthly) ==
    LET bought == IF IsContributionDay(day) THEN Contribute(tk, rec, monthly) ELSE rec
        dated == [ bought EXCEPT !.date = day,
                                 !.price = [ t \in TickerNames(tk) |-> df[day][t] ] ]
    IN  [ dated EXCEPT !.portfolio_value = PortfolioValue(tk, dated, Len(tk)) ]

\* The working record after the loop body has run for day.
DayRecord(tk, df, rec, day, monthly) ==
    LET dated == [ rec EXCEPT !.date = day,
                              !.price = [ t \in TickerNames(tk) |-> df[day][t] ] ]
        bought == IF IsContributionDay(day) THEN Contribute(tk, dated, monthly) ELSE dated
    IN  [ bought EXCEPT !.portfolio_value = PortfolioValue(tk, bought, Len(tk)) ]

\* Variant of AppendCopy: records.append(record) without copy; every entry
\* of the ledger is the one working record and reads as its current value.
AppendAlias(recs, rec) == [ k \in 1..(Len(recs) + 1) |-> rec ]

\* records.append(copy(record)): the ledger gains a snapshot of the record.
AppendCopy(recs, rec) == Append(recs, rec)

\* Entry of get_portfolio: the weight check, the empty ledger and the
\* first record.
GetPortfolioEnter ==
    /\ pc = "get_portfolio"
    /\ IF WeightsInvalid(tickers)
       THEN /\ error' = [kind |-> "InvalidWeights"]
            /\ pc' = "error"
            /\ UNCHANGED <<record, records, it>>
       ELSE /\ records' = <<>>
            /\ record' = FirstRecord(tickers, df_prices, initial_amount)
            /\ it' = 0
            /\ pc' = "loop"
            /\ UNCHANGED error
    /\ UNCHANGED <<args, data, df_prices>>

\* Variant of LoopDay: the first day, already described by the first
\* record, is processed but not appended.
LoopDaySkipFirst ==
    /\ pc = "loop"
    /\ it < Len(IndexOf(DOMAIN df_prices))
    /\ LET day == IndexOf(DOMAIN df_prices)[it + 1]
           rec == DayRecord(tickers, df_prices, record, day, monthly_addition)
       IN  /\ record' = rec
           /\ records' = IF it = 0 THEN records ELSE AppendCopy(records, rec)
    /\ it' = it + 1
    /\ UNCHANGED <<args, data, df_prices, pc, error>>

\* One iteration of "for day in df_prices.index".
LoopDay ==
    /\ pc = "loop"
    /\ it < Len(IndexOf(DOMAIN df_prices))
    /\ LET day == IndexOf(DOMAIN df_prices)[it + 1]
           rec == DayRecord(tickers, df_prices, record, day, monthly_addition)
       IN  /\ record' = rec
           /\ records' = AppendCopy(records, rec)
    /\ it' = it + 1
    /\ UNCHANGED <<args, data, df_prices, pc, error>>

\* The loop is exhausted: the ledger is returned as the portfolio table.
GetPortfolioReturn ==
    /\ pc = "loop"
    /\ it = Len(IndexOf(DOMAIN df_prices))
    /\ pc' = "done"
    /\ UNCHANGED <<args, data, df_prices, record, records, it, error>>

\* ------------------------------------------------------- specifications

\* simulate_portfolio(tickers, start_date, end_date, initial_amount,
\* monthly_addition) is called; the provider's answers are fixed.
Init ==
    /\ tickers \in TickerSpecs
    /\ start_date \in StartDates
    /\ end_date = start_date + MaxDays - 2
    /\ initial_amount \in InitialAmounts
    /\ monthly_addition \in MonthlyAdditions
    /\ provider \in [TickerNames(tickers) -> ProviderFrames(start_date, end_date)]
    /\ pc = "load_data"
    /\ data = <<>>
    /\ df_prices = NoTable
    /\ record = NoRecord
    /\ records = <<>>
    /\ it = 0
    /\ error = NoError

Next == LoadTicker \/ LoadReturn \/ Resample \/ GetPortfolioEnter \/ LoopDay
           \/ GetPortfolioReturn

Spec == Init /\ [][Next]_vars

\* get_portfolio(tickers, df_prices, initial_amount, monthly_addition) is
\* called on a prepared table, as the notebook does with its own inputs:
\* one ticker X of weight 1, a flat price of 10, three whole months
\* starting on the 1st of month m.
ScenarioInitialAmount == 1000

ScenarioMonthlyAddition == 200

ScenarioStartMonths == 1..10

FirstOfMonth(m) == DaysBeforeMonth(m) + 1

ScenarioTable(m) ==
    [ d \in FirstOfMonth(m)..(FirstOfMonth(m + 2) + MonthLengths[m + 2] - 1) |->
        [ t \in {"X"} |-> Num(10) ] ]

InitScenario ==
    /\ tickers = <<[ticker |-> "X", weight |-> Num(1)]>>
    /\ initial_amount = Num(ScenarioInitialAmount)
    /\ monthly_addition = Num(ScenarioMonthlyAddition)
    /\ \E m \in ScenarioStartMonths :
          /\ df_prices = ScenarioTable(m)
          /\ start_date = FirstOfMonth(m)
          /\ end_date = FirstOfMonth(m + 2) + MonthLengths[m + 2] - 1
    /\ provider = NoTable
    /\ pc = "get_portfolio"
    /\ data = <<>>
    /\ record = NoRecord
    /\ records = <<>>
    /\ it = 0
    /\ error = NoError

NextLedger == GetPortfolioEnter \/ LoopDay \/ GetPortfolioReturn

SpecScenario == InitScenario /\ [][NextLedger]_vars

\* ------------------------------------------------- vocabulary of the claims

FirstDate == Min(DOMAIN df_prices)

LastDate == Max(DOMAIN df_prices)

InLedger == pc \in {"loop", "done"}

RECURSIVE SumOver(_, _)
SumOver(S, f) == IF S = {} THEN Num(0)
                 ELSE LET x == CHOOSE y \in S : TRUE
                      IN  RAdd(f[x], SumOver(S \ {x}, f))

\* Sum over the tickers of shares times price in a ledger record.
HoldingsValue(rec) ==
    SumOver(DOMAIN rec.shares, [ t \in DOMAIN rec.shares |-> RMul(rec.shares[t], rec.price[t]) ])

AllPricesPositive == \A d \in DOMAIN df_prices : \A t \in DOMAIN df_prices[d] :
                        ~IsNaN(df_prices[d][t]) /\ df_prices[d][t].n > 0

AllWeightsNonNegative == \A i \in 1..Len(tickers) : tickers[i].weight.n >= 0

WeightTotal == SumOver(1..Len(tickers), [ i \in 1..Len(tickers) |-> tickers[i].weight ])

\* The amount that has been invested once the first day has been processed.
FirstDayFunding == IF DayOfMonth(FirstDate) = 1
                   THEN RAdd(initial_amount, monthly_addition)
                   ELSE initial_amount

\* ---------------------------------------------------------------- claims

\* The ledger record of the 1st of the k-th month of the scenario (k = 1, 2, 3).
ScenarioRecord(k) ==
    records[FirstOfMonth(MonthOf(FirstDate) + k - 1) - FirstDate + 1]

\* C1 as stated: in the scenario (ticker X of weight 1, price 10 every day,
\* initial_amount 1000, monthly_addition 200, three months from the 1st of a
\* month) the shares are 100 on the first record, 120 on the 1st of the
\* second month, 140 on the 1st of the third month, and the last record has
\* portfolio_value 1400 and amount_invested 1400.
C1_ScenarioAsStated ==
    pc = "done" =>
        /\ records[1].shares["X"] = Num(100)
        /\ ScenarioRecord(2).shares["X"] = Num(120)
        /\ ScenarioRecord(3).shares["X"] = Num(140)
        /\ records[Len(records)].portfolio_value = Num(1400)
        /\ records[Len(records)].amount_invested = Num(1400)

\* C1 amended: the first day of the scenario is a 1st of the month, so the
\* monthly addition is bought on it as well: the shares are 120 on the first
\* record, 140 on the 1st of the second month, 160 on the 1st of the third
\* month, and the last record has portfolio_value 1600 and amount_invested
\* 1600.
C1_Scenario ==
    pc = "done" =>
        /\ records[1].date = FirstDate
        /\ records[1].shares["X"] = Num(120)
        /\ ScenarioRecord(2).date = FirstOfMonth(MonthOf(FirstDate) + 1)
        /\ ScenarioRecord(2).shares["X"] = Num(140)
        /\ ScenarioRecord(3).date = FirstOfMonth(MonthOf(FirstDate) + 2)
        /\ ScenarioRecord(3).shares["X"] = Num(160)
        /\ records[Len(records)].date = LastDate
        /\ records[Len(records)].portfolio_value = Num(1600)
        /\ records[Len(records)].amount_invested = Num(1600)

\* C1 witness: a scenario run has returned its ledger, whose last record is
\* the last day of the third month.
C1_Witness ==
    /\ pc = "done"
    /\ tickers = <<[ticker |-> "X", weight |-> Num(1)]>>
    /\ DayOfMonth(FirstDate) = 1
    /\ MonthOf(LastDate) = MonthOf(FirstDate) + 2
    /\ records[Len(records)].date = LastDate
    /\ records[Len(records)].shares["X"] = Num(160)

\* C2 as stated: for every valid input (weights summing to 1, all prices
\* positive) the first ledger record has portfolio_value = initial_amount
\* and, per ticker, shares = initial_amount * weight / first-day price.
C2_DayZeroAsStated ==
    (InLedger /\ Len(records) >= 1 /\ AllPricesPositive) =>
        /\ records[1].portfolio_value = initial_amount
        /\ \A t \in TickerNames(tickers) :
              records[1].shares[t] =
                  RDiv(RMul(initial_amount, WeightOf(tickers, t)), df_prices[FirstDate][t])

\* C2 amended: the first ledger record is valued at what has been invested
\* by then: initial_amount when the first date is not a 1st of the month,
\* initial_amount + monthly_addition when it is; its portfolio_value equals
\* that amount and each ticker's shares equal that amount * weight /
\* first-day price.
C2_DayZero ==
    (InLedger /\ Len(records) >= 1 /\ AllPricesPositive) =>
        /\ records[1].date = FirstDate
        /\ records[1].portfolio_value = FirstDayFunding
        /\ \A t \in TickerNames(tickers) :
              records[1].shares[t] =
                  RDiv(RMul(FirstDayFunding, WeightOf(tickers, t)), df_prices[FirstDate][t])

\* C2 witness: weights 0.8 / 0.2, both prices 1, initial_amount 100, first
\* date not a 1st: shares 80 and 20, value 100.
C2_Witness ==
    /\ InLedger /\ Len(records) >= 1 /\ AllPricesPositive
    /\ DayOfMonth(FirstDate) # 1
    /\ Len(tickers) = 2
    /\ \A t \in {"A", "B"} : df_prices[FirstDate][t] = Num(1)
    /\ records[1].shares["A"] = Num(80)
    /\ records[1].shares["B"] = Num(20)
    /\ records[1].portfolio_value = Num(100)

\* C3: amount_invested of each ledger record equals that of the record
\* before it (initial_amount for the first record) plus monthly_addition
\* when the record's date is a 1st of the month, and equals it unchanged on
\* every other day.
C3_ContributionCadence ==
    InLedger =>
        \A k \in 1..Len(records) :
            LET before == IF k = 1 THEN initial_amount ELSE records[k - 1].amount_invested
            IN  records[k].amount_invested =
                    IF DayOfMonth(records[k].date) = 1
                    THEN RAdd(before, monthly_addition)
                    ELSE before

\* C3 witness: a ledger with a contribution on a later day, after a first
\* day without one.
C3_Witness ==
    /\ InLedger /\ Len(records) >= 2
    /\ monthly_addition = Num(20)
    /\ DayOfMonth(records[1].date) # 1
    /\ DayOfMonth(records[2].date) = 1
    /\ records[1].amount_invested = Num(100)
    /\ records[2].amount_invested = Num(120)

\* C4: with positive prices, non-negative weights and a non-negative
\* monthly_addition, no ticker's share count decreases from one ledger
\* record to the next.
C4_MonotonicShares ==
    (InLedger /\ AllPricesPositive /\ AllWeightsNonNegative /\ monthly_addition.n >= 0) =>
        \A k \in 2..Len(records) : \A t \in TickerNames(tickers) :
            RLeq(records[k - 1].shares[t], records[k].shares[t])

\* C4 witness: a ticker's shares grow on a contribution day.
C4_Witness ==
    /\ InLedger /\ AllPricesPositive /\ AllWeightsNonNegative /\ Len(records) >= 2
    /\ \E t \in TickerNames(tickers) :
          /\ records[1].shares[t].n > 0
          /\ ~RLeq(records[2].shares[t], records[1].shares[t])

\* get_portfolio has been called: load_data and resample_data have returned.
GetPortfolioCalled == pc \in {"loop", "done"} \/ (pc = "error" /\ DOMAIN df_prices # {})

C6_WeightsCheckedFirst ==
    (WeightTotal # Num(1)) =>
        /\ data = <<>>
        /\ DOMAIN df_prices = {}
        /\ pc \notin {"resample_data", "get_portfolio"}
        /\ error.kind # "DataAvailability"

\* C7: in every ledger record, portfolio_value equals the sum over the
\* tickers of the record's shares times the record's price, and the
\* record's prices are the price-table entries of the record's own date.
\* (A missing price makes both sides NaN.)
C7_Revaluation ==
    InLedger =>
        \A k \in 1..Len(records) :
            /\ records[k].portfolio_value = HoldingsValue(records[k])
            /\ \A t \in TickerNames(tickers) :
                  records[k].price[t] = df_prices[records[k].date][t]

\* C7 witness: a record of a day without contribution whose prices differ
\* from the previous day's, valued at the day's prices.
C7_Witness ==
    /\ InLedger /\ Len(records) >= 2 /\ AllPricesPositive
    /\ DayOfMonth(records[2].date) # 1
    /\ records[2].price # records[1].price
    /\ records[2].shares = records[1].shares
    /\ records[2].portfolio_value # records[1].portfolio_value
    /\ records[2].portfolio_value = HoldingsValue(records[2])

\* C8: for a non-empty gap-free series of N days get_portfolio ends with
\* exactly N ledger records, the k-th carrying the date of the series'
\* k-th day; the loop has visited exactly the days it has recorded, so it
\* goes on until the series is exhausted and then returns.
C8_OneRecordPerDay ==
    InLedger =>
        /\ DOMAIN df_prices = FirstDate..LastDate
        /\ Len(records) <= LastDate - FirstDate + 1
        /\ \A k \in 1..Len(records) : records[k].date = FirstDate + k - 1
        /\ pc = "done" => Len(records) = LastDate - FirstDate + 1
        /\ it = Len(records)

\* C8 witness: a ledger of three days has been returned.
C8_Witness ==
    /\ pc = "done"
    /\ LastDate - FirstDate + 1 = 3
    /\ Len(records) = 3
    /\ records[3].date = LastDate

\* The days on which the provider has a price for ticker t.
Observed(t) == DOMAIN provider[t]

\* The tickers whose earliest available date is later than start_date.
LateTickers == { t \in TickerNames(tickers) : Min(Observed(t)) > start_date }

\* The first of them in the order of the tickers argument.
FirstLateTicker ==
    tickers[Min({ i \in 1..Len(tickers) : tickers[i].ticker \in LateTickers })].ticker

\* C9: whenever some ticker's earliest available date is later than
\* start_date, load_data fails with an error naming such a ticker (the
\* first in order) and its earliest available date, and no price table and
\* no ledger are ever produced; when no ticker's earliest date is later
\* than start_date, that error is never raised.
C9_DataAvailability ==
    /\ (LateTickers # {}) =>
          /\ DOMAIN df_prices = {}
          /\ records = <<>>
          /\ pc \in {"load_data", "error"}
          /\ pc = "error" =>
                /\ error.kind = "DataAvailability"
                /\ error.ticker = FirstLateTicker
                /\ error.first_date = Min(Observed(error.ticker))
                /\ error.first_date > start_date
          /\ (pc = "load_data") => Len(data) < Len(tickers)
    /\ (LateTickers = {}) => error.kind # "DataAvailability"

\* C9 witness: the second ticker's history starts after start_date, the
\* first ticker's does not; the run ended with the error naming the second.
C9_Witness ==
    /\ pc = "error" /\ error.kind = "DataAvailability"
    /\ Len(tickers) = 2
    /\ Len(data) = 0
    /\ Min(Observed("A")) <= start_date
    /\ error.ticker = "B"
    /\ error.first_date = start_date + 1

\* resample_data has returned in this run.
Resampled == pc \in {"get_portfolio", "loop", "done"}
                \/ (pc = "error" /\ error.kind = "InvalidWeights")

\* C10: the resampled table has exactly one row for every calendar day from
\* the earliest to the latest observed date, and for each ticker the price
\* of a day is the (rounded) price observed on the most recent day up to and
\* including it: an observed day keeps its price, a gap takes the latest
\* earlier one (and stays empty if there is none).
C10_ForwardFill ==
    Resampled =>
        LET days == UNION { Observed(t) : t \in TickerNames(tickers) }
        IN  /\ DOMAIN df_prices = Min(days)..Max(days)
            /\ \A d \in DOMAIN df_prices : \A t \in TickerNames(tickers) :
                  LET upto == { e \in Observed(t) : e <= d }
                  IN  IF upto = {} THEN IsNaN(df_prices[d][t])
                      ELSE df_prices[d][t] = Round2(provider[t][Max(upto)])

\* C10 witness: a ticker observed on the first of three days only carries
\* that price over the two following days, while the other ticker's price
\* changes.
C10_Witness ==
    /\ Resampled
    /\ Len(tickers) = 2
    /\ LastDate = FirstDate + 2
    /\ Observed("A") = {FirstDate}
    /\ ~IsNaN(df_prices[FirstDate]["A"])
    /\ df_prices[FirstDate + 1]["A"] = df_prices[FirstDate]["A"]
    /\ df_prices[FirstDate + 2]["A"] = df_prices[FirstDate]["A"]
    /\ df_prices[FirstDate + 2]["B"] # df_prices[FirstDate]["B"]

NoMissingPrice(df) == \A d \in DOMAIN df : \A t \in DOMAIN df[d] : ~IsNaN(df[d][t])

\* C11: resample_data applied to a daily table that has a price for every
\* ticker on every calendar day of its range returns the same table, so
\* resampling the result of a resampling (with no leading gap) changes
\* nothing.
C11_ResampleIdempotent ==
    /\ (pc = "resample_data" /\ NoMissingPrice(resample_data(df_prices))) =>
          resample_data(resample_data(df_prices)) = resample_data(df_prices)
    /\ (Resampled /\ NoMissingPrice(df_prices)) =>
          /\ DOMAIN df_prices = FirstDate..LastDate
          /\ resample_data(df_prices) = df_prices

\* C11 witness: a loaded table with a gap, about to be resampled into a
\* three-day table without a leading gap.
C11_Witness ==
    /\ pc = "resample_data"
    /\ DOMAIN df_prices = {FirstDate, FirstDate + 2}
    /\ ~NoMissingPrice(df_prices)
    /\ NoMissingPrice(resample_data(df_prices))
    /\ resample_data(df_prices) # df_prices

\* C12: the first ledger record holds the monthly contribution on top of
\* the initial amount if and only if the first date is a 1st of the month:
\* then amount_invested = initial_amount + monthly_addition and each
\* ticker's shares = (initial_amount + monthly_addition) * weight /
\* first-day price; otherwise amount_invested = initial_amount (and the
\* shares are those the initial amount buys).
C12_DayZeroFunding ==
    (InLedger /\ Len(records) >= 1) =>
        LET funded == IF DayOfMonth(records[1].date) = 1
                      THEN RAdd(initial_amount, monthly_addition)
                      ELSE initial_amount
        IN  /\ records[1].date = FirstDate
            /\ records[1].amount_invested = funded
            /\ \A t \in TickerNames(tickers) :
                  ~IsNaN(df_prices[FirstDate][t]) =>
                      records[1].shares[t] =
                          RMul(RDiv(funded, df_prices[FirstDate][t]), WeightOf(tickers, t))

\* C12 witness: a first date that is February 1st, with 100 + 20 invested
\* on the first record.
C12_Witness ==
    /\ InLedger /\ Len(records) >= 1
    /\ DayOfMonth(FirstDate) = 1
    /\ monthly_addition = Num(20)
    /\ records[1].amount_invested = Num(120)
    /\ AllPricesPositive
    /\ records[1].portfolio_value = Num(120)

\* C13: between consecutive ledger records every ticker's share count is
\* unchanged when the later day is not a 1st of the month, and when it is a
\* 1st it grows by exactly monthly_addition * weight / the ticker's price
\* of that same day (the price table's entry for the later record's date,
\* not the previous day's price).
C13_OnlyContributionBuys ==
    InLedger =>
        \A k \in 2..Len(records) : \A t \in TickerNames(tickers) :
            records[k].shares[t] =
                IF DayOfMonth(records[k].date) = 1
                THEN RAdd(records[k - 1].shares[t],
                          RDiv(RMul(monthly_addition, WeightOf(tickers, t)),
                               df_prices[records[k].date][t]))
                ELSE records[k - 1].shares[t]

\* C13 witness: a contribution on the second day, whose price differs from
\* the first day's, and a third day that leaves the shares alone.
C13_Witness ==
    /\ InLedger /\ Len(records) >= 3 /\ AllPricesPositive
    /\ monthly_addition = Num(20)
    /\ DayOfMonth(records[2].date) = 1
    /\ \E t \in TickerNames(tickers) :
          /\ WeightOf(tickers, t).n > 0
          /\ df_prices[records[2].date][t] # df_prices[records[1].date][t]
          /\ records[2].shares[t] # records[1].shares[t]
          /\ records[3].shares[t] = records[2].shares[t]

\* C14: once a record has been appended to the ledger, no later step
\* changes any field of it: every step keeps the records already in the
\* ledger as they are and only ever appends.
C14_RecordsAreSnapshots ==
    [][ InLedger =>
          /\ Len(records') >= Len(records)
          /\ \A k \in 1..Len(records) : records'[k] = records[k] ]_vars

\* C14 witness: the working record has moved on to a second day with other
\* prices and another value while the ledger's first entry still shows the
\* first day.
C14_Witness ==
    /\ InLedger /\ Len(records) >= 2
    /\ record.date = FirstDate + 1
    /\ record = records[2]
    /\ records[1].date = FirstDate
    /\ records[1].price # record.price
    /\ records[1].portfolio_value # record.portfolio_value

\* Every ticker has one positive price, the same on every day of the table.
FlatPrices ==
    /\ AllPricesPositive
    /\ \A d \in DOMAIN df_prices : df_prices[d] = df_prices[FirstDate]

\* C15: if the weights sum to 1 and every ticker's price is the same
\* positive value on every day (tickers may differ from one another), then
\* portfolio_value equals amount_invested in every ledger record.
C15_FlatPriceConservation ==
    (InLedger /\ WeightTotal = Num(1) /\ FlatPrices) =>
        \A k \in 1..Len(records) :
            records[k].portfolio_value = records[k].amount_invested

\* C15 witness: two tickers with different flat prices, a contribution made
\* after the first day, value and invested amount both 120.
C15_Witness ==
    /\ InLedger /\ FlatPrices /\ Len(records) >= 2
    /\ Len(tickers) = 2
    /\ df_prices[FirstDate]["A"] # df_prices[FirstDate]["B"]
    /\ records[1].amount_invested = Num(100)
    /\ records[Len(records)].amount_invested = Num(120)
    /\ records[Len(records)].portfolio_value = Num(120)

====
